----------------------- MODULE ReviewedExecutionProofs -----------------------
(***************************************************************************)
(* For any number of processes, control roots, claim stores and issues:    *)
(* a store that a process has opened is whole, what a command reports of   *)
(* its attempt is in the store, only approved work runs, in the package    *)
(* that was made for it, and nobody touches what another one has finished. *)
(*                                                                         *)
(* The first two follow from RInv: who holds a store's lock, what its file *)
(* is meanwhile, and how far a process that has claimed has got.  The      *)
(* others follow from FInv, of the specs and packages in the control       *)
(* roots.  Each of the two is inductive by itself.                         *)
(***************************************************************************)
EXTENDS ReviewedExecution, TLAPS

Stages ==
  {"idle", "stat", "create", "made", "making", "inspect", "inspect_v1",
   "migrate", "migrating", "open", "failed", "dead"}

(* The places a command is at before it opens a store.                     *)
Early == {"idle", "compile", "spec", "store", "build", "artifacts", "gates"}

Places == Early \cup {"open", "claim", "working", "done", "dead"}

IsOver(f, D) == f = [x \in D |-> f[x]]

Typed ==
  /\ file \in [Stores -> {"absent", "empty", "v1", "v2"}]
  /\ lock \in [Stores -> Procs \cup {None}]
  /\ hot \in SUBSET Stores
  /\ initial \in [Stores -> SUBSET (Procs \cup Old)]
  /\ current \in [Stores -> SUBSET (Procs \cup Old)]
  /\ path \in [Procs -> Stores \cup {None}]
  /\ opening \in [Procs -> Stages]
  /\ pc \in [Procs -> Places]
  /\ store \in [Procs -> Stores]
  /\ IsOver(life, Procs) /\ IsOver(result, Procs)

(* An opener holds the lock of its file from BEGIN to the end of its       *)
(* transaction, and nobody else does.                                      *)
LocksAreHeld ==
  /\ \A p \in Procs, s \in Stores :
       lock[s] = p <=> I!InTransaction(p) /\ path[p] = s
  /\ \A p \in Procs : opening[p] # "idle" => path[p] \in Stores

(* What the file is at some stages of its opener.                          *)
FilesMatchOpeners ==
  \A p \in Procs :
    /\ opening[p] = "making" => file[path[p]] = "empty"
    /\ opening[p] = "migrating" => file[path[p]] = "v1"
    /\ opening[p] = "open" => file[path[p]] = "v2"

TablesMatchFiles ==
  \A s \in Stores :
    /\ file[s] = "v2" => current[s] = initial[s]
    /\ file[s] \in {"absent", "empty"} => initial[s] = {} /\ current[s] = {}

(* A process opens its own store, and claims in it once it has.            *)
ClaimersHaveOpened ==
  \A p \in Procs :
    /\ pc[p] \in Early => opening[p] = "idle"
    /\ pc[p] \in {"open", "claim"} => path[p] = store[p]
    /\ pc[p] = "claim" => opening[p] = "open"
    /\ I!InTransaction(p) => pc[p] = "open"

(* A process reports last of all, and has claimed if it works.             *)
ClaimsMatchPlaces ==
  \A p \in Procs :
    /\ pc[p] \in Early \cup {"open", "claim"} => p \notin initial[store[p]]
    /\ pc[p] = "working" => p \in initial[store[p]]
    /\ pc[p] # "done" => result[p] = None

StoreInv == LocksAreHeld /\ FilesMatchOpeners /\ TablesMatchFiles

RInv ==
  /\ Typed
  /\ StoreInv
  /\ ClaimersHaveOpened
  /\ ClaimsMatchPlaces
  /\ ReportsMatchTheStore

(* What the report of a command that has not claimed says.                 *)
Unconsumed(r) == ~r.consumed /\ r.lifecycle = None

LEMMA InitRInv == Init => RInv
<1> SUFFICES ASSUME Init PROVE RInv
  OBVIOUS
<1> USE NamesAssumption DEF Init, I!StoreInit
<1>1. Typed
  BY DEF Typed, IsOver, Stages, Places, Early
<1>2. LocksAreHeld /\ FilesMatchOpeners /\ TablesMatchFiles
  BY DEF LocksAreHeld, FilesMatchOpeners, TablesMatchFiles, I!InTransaction
<1>3. ClaimersHaveOpened
  BY DEF ClaimersHaveOpened, I!InTransaction
<1>4. ClaimsMatchPlaces
  <2>1. ASSUME NEW p \in Procs PROVE p \notin initial[store[p]]
    BY <2>1
  <2> QED
    BY <2>1 DEF ClaimsMatchPlaces
<1>5. ReportsMatchTheStore
  BY DEF ReportsMatchTheStore
<1> QED
  BY <1>1, <1>2, <1>3, <1>4, <1>5 DEF RInv, StoreInv

-----------------------------------------------------------------------------
(* Steps that leave the stores alone.                                      *)

(* The commands up to the gates of the runner.                             *)
EarlyStep(p) ==
  \/ StartSuccessor(p) \/ Compiled(p) \/ StartReviewed(p) \/ LoadSpec(p)
  \/ QualifyStore(p) \/ StartPackage(p) \/ Built(p) \/ StartRun(p)
  \/ InvokeRunner(p)

(* A command that stops before a claim answers that nothing was consumed.  *)
LEMMA EarlySteps ==
  ASSUME Typed, NEW p \in Procs, EarlyStep(p)
  PROVE  /\ UNCHANGED <<storeVars, store, life>>
         /\ pc[p] \in Early
         /\ \/ \E to \in Early : pc' = [pc EXCEPT ![p] = to] /\ UNCHANGED result
            \/ \E r : Answers(p, r) /\ Unconsumed(r)
<1> USE DEF Early, Goes, GoesTo
<1>1. Unconsumed(Blocked)
  BY DEF Unconsumed, Blocked, Report
<1>2. Stops(p) => /\ UNCHANGED <<store, life>>
                  /\ \E r : Answers(p, r) /\ Unconsumed(r)
  BY <1>1 DEF Stops
<1>3. CASE StartSuccessor(p) \/ StartReviewed(p) \/ StartPackage(p) \/ StartRun(p)
  BY <1>3 DEF StartSuccessor, StartReviewed, StartPackage, StartRun
<1>4. CASE Compiled(p)
  BY <1>2, <1>4 DEF Compiled
<1>5. CASE LoadSpec(p)
  BY <1>2, <1>5 DEF LoadSpec
<1>6. CASE QualifyStore(p)
  BY <1>2, <1>6 DEF QualifyStore
<1>7. CASE Built(p)
  <2>1. Unconsumed(Report("pass", "preclaim_ready", FALSE, None, FALSE))
    BY DEF Unconsumed, Report
  <2> QED
    BY <1>2, <1>7, <2>1 DEF Built
<1>8. CASE InvokeRunner(p)
  BY <1>2, <1>8 DEF InvokeRunner
<1> QED
  BY <1>3, <1>4, <1>5, <1>6, <1>7, <1>8 DEF EarlyStep

LEMMA EarlyKeepsRInv ==
  ASSUME RInv, NEW p \in Procs, EarlyStep(p)
  PROVE  RInv'
<1>1. /\ UNCHANGED <<storeVars, store, life>> /\ pc[p] \in Early
      /\ \/ \E to \in Early : pc' = [pc EXCEPT ![p] = to] /\ UNCHANGED result
         \/ \E r : Answers(p, r) /\ Unconsumed(r)
  BY EarlySteps DEF RInv
<1> USE DEF RInv, storeVars
<1>2. StoreInv'
  BY <1>1 DEF StoreInv, LocksAreHeld, FilesMatchOpeners, TablesMatchFiles,
              I!InTransaction
<1>3. CASE \E to \in Early : pc' = [pc EXCEPT ![p] = to] /\ UNCHANGED result
  <2> PICK to \in Early : pc' = [pc EXCEPT ![p] = to] /\ UNCHANGED result
    BY <1>3
  <2>1. Typed'
    BY <1>1 DEF Typed, Places
  <2>2. ClaimersHaveOpened' /\ ClaimsMatchPlaces'
    BY <1>1 DEF Typed, ClaimersHaveOpened, ClaimsMatchPlaces, Early,
                I!InTransaction
  <2>3. ReportsMatchTheStore'
    BY <1>1 DEF ReportsMatchTheStore
  <2> QED
    BY <1>2, <2>1, <2>2, <2>3
<1>4. CASE \E r : Answers(p, r) /\ Unconsumed(r)
  <2> PICK r : Answers(p, r) /\ Unconsumed(r)
    BY <1>4
  <2>1. /\ pc' = [pc EXCEPT ![p] = "done"]
        /\ result' = [result EXCEPT ![p] = r]
    BY DEF Answers, GoesTo
  <2>2. Typed'
    BY <1>1, <2>1 DEF Typed, Places, IsOver
  <2>3. ClaimersHaveOpened' /\ ClaimsMatchPlaces'
    BY <1>1, <2>1 DEF Typed, IsOver, ClaimersHaveOpened, ClaimsMatchPlaces, Early,
                      I!InTransaction
  <2>4. p \notin initial[store[p]]
    BY <1>1 DEF ClaimsMatchPlaces
  <2>5. ReportsMatchTheStore'
    BY <1>1, <2>1, <2>4 DEF ReportsMatchTheStore, Typed, IsOver, Unconsumed
  <2> QED
    BY <1>2, <2>2, <2>3, <2>5
<1> QED
  BY <1>1, <1>3, <1>4

(* What others do to the files of specs, packages and the repository.      *)
LEMMA QuietKeepsRInv ==
  ASSUME RInv, UNCHANGED <<storeVars, pc, store, life, result>>
  PROVE  RInv'
BY DEF RInv, Typed, IsOver, StoreInv, LocksAreHeld, FilesMatchOpeners,
       TablesMatchFiles, ClaimersHaveOpened, ClaimsMatchPlaces,
       ReportsMatchTheStore, I!InTransaction, storeVars

-----------------------------------------------------------------------------
(* Opening a store.                                                        *)

(* An opener's stage moves: its own, and to one that a step may go to.     *)
LEMMA OpenerMoves ==
  ASSUME Typed, NEW p \in Procs, NEW to \in Stages, I!GoesTo(p, to)
  PROVE  /\ opening' \in [Procs -> Stages]
         /\ opening'[p] = to
         /\ \A q \in Procs \ {p} : opening'[q] = opening[q]
BY DEF Typed, I!GoesTo

(* Stages that hold nothing.                                               *)
Idle == Stages \ {"making", "migrating", "open"}

(* A step that only asks, or gives up, leaves its opener without a lock.   *)
LEMMA AskingKeepsStores ==
  ASSUME Typed, StoreInv, NEW p \in Procs, NEW to \in Idle, I!GoesTo(p, to),
         opening[p] # "idle", lock' = I!Released(p),
         UNCHANGED <<file, initial, current, path>>
  PROVE  StoreInv' /\ lock' \in [Stores -> Procs \cup {None}]
<1> USE DEF Typed, StoreInv, Idle
<1>1. /\ opening' \in [Procs -> Stages] /\ opening'[p] = to
      /\ \A q \in Procs \ {p} : opening'[q] = opening[q]
  BY OpenerMoves
<1>2. \A s \in Stores : lock'[s] = IF lock[s] = p THEN None ELSE lock[s]
  BY DEF I!Released
<1>3. lock' \in [Stores -> Procs \cup {None}]
  BY DEF I!Released
<1>4. LocksAreHeld'
  BY <1>1, <1>2, NamesAssumption DEF LocksAreHeld, I!InTransaction
<1>5. FilesMatchOpeners' /\ TablesMatchFiles'
  BY <1>1 DEF FilesMatchOpeners, TablesMatchFiles
<1> QED
  BY <1>3, <1>4, <1>5

(* An opener that is in no transaction holds no lock.                      *)
LEMMA NothingToRelease ==
  ASSUME Typed, StoreInv, NEW p \in Procs, ~ I!InTransaction(p)
  PROVE  I!Released(p) = lock
BY DEF Typed, StoreInv, LocksAreHeld, I!Released

(* BEGIN IMMEDIATE on a file that nobody has locked.                       *)
LEMMA BeginKeepsStores ==
  ASSUME Typed, StoreInv, NEW p \in Procs, NEW to \in {"making", "migrating"},
         ~ I!InTransaction(p), opening[p] # "idle",
         I!Free(path[p]), lock' = [lock EXCEPT ![path[p]] = p], I!GoesTo(p, to),
         file[path[p]] = IF to = "making" THEN "empty" ELSE "v1",
         UNCHANGED <<file, initial, current, path>>
  PROVE  StoreInv' /\ lock' \in [Stores -> Procs \cup {None}]
<1> USE DEF Typed, StoreInv
<1>1. /\ opening' \in [Procs -> Stages] /\ opening'[p] = to
      /\ \A q \in Procs \ {p} : opening'[q] = opening[q]
  BY OpenerMoves DEF Stages
<1>2. path[p] \in Stores
  BY DEF LocksAreHeld
<1>3. lock' \in [Stores -> Procs \cup {None}]
  OBVIOUS
<1>4. LocksAreHeld'
  BY <1>1, <1>2, NamesAssumption DEF LocksAreHeld, I!InTransaction, I!Free
<1>5. FilesMatchOpeners' /\ TablesMatchFiles'
  BY <1>1 DEF FilesMatchOpeners, TablesMatchFiles
<1> QED
  BY <1>3, <1>4, <1>5

(* COMMIT makes the file one of this version, which no other opener is     *)
(* at work on.                                                             *)
LEMMA CommitKeepsStores ==
  ASSUME Typed, StoreInv, NEW p \in Procs, I!InTransaction(p), I!Applied(p),
         lock' = I!Released(p), NEW to \in {"open", "failed"}, I!GoesTo(p, to),
         UNCHANGED path
  PROVE  /\ StoreInv' /\ initial' = initial
         /\ lock' \in [Stores -> Procs \cup {None}]
         /\ file' \in [Stores -> {"absent", "empty", "v1", "v2"}]
         /\ current' \in [Stores -> SUBSET (Procs \cup Old)]
<1> USE DEF Typed, StoreInv
<1> DEFINE s == path[p]
<1>1. /\ opening' \in [Procs -> Stages] /\ opening'[p] = to
      /\ \A q \in Procs \ {p} : opening'[q] = opening[q]
  BY OpenerMoves DEF Stages
<1>2. s \in Stores /\ lock[s] = p
  BY DEF LocksAreHeld, I!InTransaction
<1>3. /\ file' = [file EXCEPT ![s] = "v2"] /\ initial' = initial
      /\ current' \in [Stores -> SUBSET (Procs \cup Old)]
      /\ current'[s] = initial[s]
      /\ \A t \in Stores \ {s} : current'[t] = current[t]
  <2>1. CASE opening[p] = "making"
    BY <1>2, <2>1 DEF I!Applied, I!At, I!Made, FilesMatchOpeners, TablesMatchFiles
  <2>2. CASE opening[p] = "migrating"
    BY <1>2, <2>2 DEF I!Applied, I!At, I!Migrated
  <2> QED
    BY <2>1, <2>2 DEF I!InTransaction
<1>4. LocksAreHeld'
  BY <1>1, NamesAssumption DEF LocksAreHeld, I!InTransaction, I!Released
<1>5. \A q \in Procs \ {p} : I!InTransaction(q) => path[q] # s
  BY <1>2 DEF LocksAreHeld
<1>6. FilesMatchOpeners'
  BY <1>1, <1>2, <1>3, <1>5 DEF FilesMatchOpeners, I!InTransaction, LocksAreHeld
<1>7. TablesMatchFiles'
  BY <1>2, <1>3 DEF TablesMatchFiles
<1> QED
  BY <1>2, <1>3, <1>4, <1>6, <1>7 DEF I!Released

(* A file that was absent is there, empty.                                 *)
LEMMA CreateKeepsStores ==
  ASSUME Typed, StoreInv, NEW p \in Procs, I!CreateExclusive(p)
  PROVE  StoreInv' /\ file' \in [Stores -> {"absent", "empty", "v1", "v2"}]
<1> USE DEF Typed, StoreInv, I!CreateExclusive, I!At
<1>1. /\ opening' \in [Procs -> Stages] /\ opening'[p] = "made"
      /\ \A q \in Procs \ {p} : opening'[q] = opening[q]
  BY OpenerMoves DEF Stages
<1>2. path[p] \in Stores
  BY DEF LocksAreHeld
<1>3. LocksAreHeld'
  BY <1>1 DEF LocksAreHeld, I!InTransaction
<1>4. FilesMatchOpeners' /\ TablesMatchFiles'
  BY <1>1, <1>2 DEF FilesMatchOpeners, TablesMatchFiles, LocksAreHeld
<1> QED
  BY <1>2, <1>3, <1>4

(* The steps of an opener.                                                 *)
LEMMA OpeningKeepsStores ==
  ASSUME Typed, StoreInv, NEW p \in Procs, I!OpeningStep(p)
  PROVE  /\ StoreInv' /\ initial' = initial /\ path' = path
         /\ lock' \in [Stores -> Procs \cup {None}]
         /\ file' \in [Stores -> {"absent", "empty", "v1", "v2"}]
         /\ current' \in [Stores -> SUBSET (Procs \cup Old)]
         /\ hot' \in SUBSET Stores
         /\ opening' \in [Procs -> Stages]
         /\ \A q \in Procs \ {p} : opening'[q] = opening[q]
         /\ opening[p] # "idle" /\ opening[p] # "open"
<1> USE DEF I!At
<1>1. CASE I!Stat(p) \/ I!InspectV1(p)
  <2>1. PICK to \in Idle : I!GoesTo(p, to)
    BY <1>1 DEF I!Stat, I!InspectV1, Idle, Stages
  <2> QED
    BY <1>1, <2>1, AskingKeepsStores, NothingToRelease, OpenerMoves
       DEF I!Stat, I!InspectV1, Idle, Typed, I!files, I!InTransaction
<1>2. CASE I!InspectV2(p)
  <2> DEFINE s == path[p]
  <2>1. s \in Stores
    BY <1>2 DEF I!InspectV2, StoreInv, LocksAreHeld
  <2>2. CASE s \in hot
    <3>1. I!GoesTo(p, "failed")
      BY <1>2, <2>2 DEF I!InspectV2
    <3> QED
      BY <1>2, <3>1, AskingKeepsStores, NothingToRelease, OpenerMoves
         DEF I!InspectV2, Idle, Stages, Typed, I!files, I!InTransaction
  <2>3. CASE s \notin hot /\ file[s] = "v2"
    <3>1. I!GoesTo(p, "open")
      BY <1>2, <2>3 DEF I!InspectV2
    <3>2. /\ opening' \in [Procs -> Stages] /\ opening'[p] = "open"
          /\ \A q \in Procs \ {p} : opening'[q] = opening[q]
      BY <3>1, OpenerMoves DEF Stages
    <3>3. LocksAreHeld' /\ FilesMatchOpeners' /\ TablesMatchFiles'
      BY <1>2, <2>3, <3>2 DEF I!InspectV2, I!files, StoreInv, LocksAreHeld,
         FilesMatchOpeners, TablesMatchFiles, I!InTransaction
    <3> QED
      BY <1>2, <3>2, <3>3 DEF I!InspectV2, I!files, Typed, StoreInv
  <2>4. CASE s \notin hot /\ file[s] # "v2"
    <3>1. I!GoesTo(p, "inspect_v1")
      BY <1>2, <2>4 DEF I!InspectV2
    <3> QED
      BY <1>2, <3>1, AskingKeepsStores, NothingToRelease, OpenerMoves
         DEF I!InspectV2, Idle, Stages, Typed, I!files, I!InTransaction
  <2> QED
    BY <2>2, <2>3, <2>4
<1>3. CASE I!CreateExclusive(p)
  BY <1>3, CreateKeepsStores, OpenerMoves DEF I!CreateExclusive, Typed, Stages
<1>4. CASE I!BeginCreation(p)
  BY <1>4, BeginKeepsStores, OpenerMoves
     DEF I!BeginCreation, Typed, Stages, I!InTransaction
<1>5. CASE I!BeginMigration(p)
  <2>1. CASE file[path[p]] = "v1"
    BY <1>5, <2>1, BeginKeepsStores, OpenerMoves
       DEF I!BeginMigration, Typed, Stages, I!InTransaction
  <2>2. CASE file[path[p]] # "v1"
    BY <1>5, <2>2, AskingKeepsStores, NothingToRelease, OpenerMoves
       DEF I!BeginMigration, Typed, Stages, Idle, I!InTransaction
  <2> QED
    BY <2>1, <2>2
<1>6. CASE I!CommitOpening(p)
  BY <1>6, CommitKeepsStores, OpenerMoves
     DEF I!CommitOpening, Typed, Stages, I!InTransaction
<1>7. CASE I!CommitOpeningUncertain(p)
  <2>1. CASE I!Applied(p)
    BY <1>7, <2>1, CommitKeepsStores, OpenerMoves
       DEF I!CommitOpeningUncertain, Typed, Stages, I!InTransaction
  <2>2. CASE UNCHANGED <<file, initial, current>>
    BY <1>7, <2>2, AskingKeepsStores, OpenerMoves
       DEF I!CommitOpeningUncertain, Typed, Stages, Idle, I!InTransaction
  <2> QED
    BY <1>7, <2>1, <2>2 DEF I!CommitOpeningUncertain
<1>8. CASE I!OpeningFails(p)
  BY <1>8, AskingKeepsStores, OpenerMoves
     DEF I!OpeningFails, I!Underway, Typed, Stages, Idle
<1> QED
  BY <1>1, <1>2, <1>3, <1>4, <1>5, <1>6, <1>7, <1>8 DEF I!OpeningStep

LEMMA OpenStepKeepsRInv ==
  ASSUME RInv, NEW p \in Procs, OpenStep(p)
  PROVE  RInv'
<1>1. /\ pc[p] = "open" /\ UNCHANGED <<pc, store, life, result>>
      /\ I!OpeningStep(p) /\ Typed /\ StoreInv
  BY DEF OpenStep, RInv, control
<1>2. /\ StoreInv' /\ initial' = initial /\ path' = path
      /\ \A q \in Procs \ {p} : opening'[q] = opening[q]
  BY <1>1, OpeningKeepsStores
<1>3. Typed'
  BY <1>1, <1>2, OpeningKeepsStores DEF Typed, IsOver
<1>4. ClaimersHaveOpened' /\ ClaimsMatchPlaces' /\ ReportsMatchTheStore'
  BY <1>1, <1>2 DEF RInv, ClaimersHaveOpened, ClaimsMatchPlaces,
                    ReportsMatchTheStore, Early, I!InTransaction
<1> QED
  BY <1>2, <1>3, <1>4 DEF RInv

-----------------------------------------------------------------------------
(* The runner.                                                             *)

(* A step that leaves every store as it is, and moves its command on to    *)
(* a place where it has opened its store, or has claimed.                  *)
LEMMA MoveKeepsRInv ==
  ASSUME RInv, NEW p \in Procs, NEW to \in Places,
         pc' = [pc EXCEPT ![p] = to],
         UNCHANGED <<file, lock, hot, initial, current, path, opening, store, life,
                     result>>,
         to \in Early \cup {"open", "claim"} => p \notin initial[store[p]],
         to \in Early => opening[p] = "idle",
         to \in {"open", "claim"} => path[p] = store[p],
         to = "claim" => opening[p] = "open",
         to = "working" => p \in initial[store[p]],
         pc[p] # "done", ~ I!InTransaction(p)
  PROVE  RInv'
<1> USE DEF RInv
<1>1. Typed'
  BY DEF Typed, IsOver
<1>2. StoreInv'
  BY DEF StoreInv, LocksAreHeld, FilesMatchOpeners, TablesMatchFiles,
         I!InTransaction
<1>3. ClaimersHaveOpened' /\ ClaimsMatchPlaces'
  BY DEF Typed, ClaimersHaveOpened, ClaimsMatchPlaces, I!InTransaction
<1>4. ReportsMatchTheStore'
  BY DEF ReportsMatchTheStore
<1> QED
  BY <1>1, <1>2, <1>3, <1>4

(* What a report has to say to be true of the store.                       *)
TrueOf(p, r, claimed, state) ==
  /\ r.consumed => claimed
  /\ r.lifecycle # None => state = r.lifecycle
  /\ ~r.consumed /\ claimed =>
       r.category \in {"claim_durability_uncertain", "runner_internal_failure"}

(* A command ends with a true report; its claim, if it made one with this  *)
(* step, is in an open store that nobody is migrating.                     *)
LEMMA AnswerKeepsRInv ==
  ASSUME RInv, NEW p \in Procs, NEW r, Answers(p, r), pc[p] # "done",
         NEW state, life' = [life EXCEPT ![p] = state],
         UNCHANGED <<file, lock, initial, current, path, opening, store>>,
         hot' \in SUBSET Stores, ~ I!InTransaction(p),
         TrueOf(p, r, p \in initial[store[p]], state)
  PROVE  RInv'
<1> USE DEF RInv
<1>1. /\ pc' = [pc EXCEPT ![p] = "done"]
      /\ result' = [result EXCEPT ![p] = r]
  BY DEF Answers, GoesTo
<1>2. Typed'
  BY <1>1 DEF Typed, IsOver, Places
<1>3. StoreInv'
  BY DEF StoreInv, LocksAreHeld, FilesMatchOpeners, TablesMatchFiles,
         I!InTransaction
<1>4. ClaimersHaveOpened' /\ ClaimsMatchPlaces'
  BY <1>1 DEF Typed, IsOver, ClaimersHaveOpened, ClaimsMatchPlaces, Early,
              I!InTransaction
<1>5. ReportsMatchTheStore'
  BY <1>1 DEF Typed, IsOver, ReportsMatchTheStore, TrueOf
<1> QED
  BY <1>2, <1>3, <1>4, <1>5

(* A command that has not claimed says so.                                 *)
LEMMA UnclaimedIsTrue ==
  ASSUME NEW p \in Procs, NEW category, NEW state,
         category \in {"unclaimed", "claim_durability_uncertain"}
  PROVE  LET r == Combined(Returns("blocked", category, None))
         IN  /\ TrueOf(p, r, FALSE, state)
             /\ r.category = category /\ ~r.consumed /\ r.lifecycle = None
BY DEF Combined, Returns, Report, Durable, TrueOf

LEMMA LifeStays ==
  ASSUME Typed, NEW p \in Procs, UNCHANGED life
  PROVE  life' = [life EXCEPT ![p] = life[p]]
BY DEF Typed, IsOver

LEMMA UnclaimedKeepsRInv ==
  ASSUME RInv, NEW p \in Procs, p \notin initial[store[p]], pc[p] # "done",
         ~ I!InTransaction(p), Return(p, Returns("blocked", "unclaimed", None)),
         UNCHANGED <<file, lock, initial, current, path, opening, life>>,
         hot' \in SUBSET Stores
  PROVE  RInv'
<1> DEFINE r == Combined(Returns("blocked", "unclaimed", None))
<1>1. Answers(p, r) /\ store' = store
  BY DEF Return
<1>2. TrueOf(p, r, p \in initial[store[p]], life[p])
  BY UnclaimedIsTrue DEF TrueOf
<1> HIDE DEF r
<1>3. life' = [life EXCEPT ![p] = life[p]]
  BY LifeStays DEF RInv
<1> QED
  BY <1>1, <1>2, <1>3, AnswerKeepsRInv

(* A claim adds the attempt to both tables of an open store.               *)
LEMMA ClaimKeepsStores ==
  ASSUME RInv, NEW p \in Procs, pc[p] = "claim", ClaimApplies(p),
         UNCHANGED <<file, lock, path, opening, store>>
  PROVE  /\ StoreInv'
         /\ initial' \in [Stores -> SUBSET (Procs \cup Old)]
         /\ current' \in [Stores -> SUBSET (Procs \cup Old)]
         /\ p \in initial'[store[p]]
         /\ \A q \in Procs \ {p}, s \in Stores :
              q \in initial'[s] <=> q \in initial[s]
<1> USE DEF RInv, Typed
<1> DEFINE s == store[p]
<1>1. /\ s \in Stores /\ path[p] = s /\ opening[p] = "open" /\ file[s] = "v2"
  BY DEF ClaimersHaveOpened, StoreInv, FilesMatchOpeners
<1>2. /\ initial' = [initial EXCEPT ![s] = @ \cup {p}]
      /\ current' = [current EXCEPT ![s] = @ \cup {p}]
  BY DEF ClaimApplies
<1>3. LocksAreHeld' /\ FilesMatchOpeners'
  BY DEF StoreInv, LocksAreHeld, FilesMatchOpeners, I!InTransaction
<1>4. TablesMatchFiles'
  BY <1>1, <1>2 DEF StoreInv, TablesMatchFiles
<1> QED
  BY <1>1, <1>2, <1>3, <1>4 DEF StoreInv

(* What a command answers after a claim is true of the store.              *)
LEMMA ClaimedIsTrue ==
  ASSUME NEW p \in Procs
  PROVE  /\ TrueOf(p, Combined(Returns("success", "pr_opened_and_stopped", p)), TRUE,
                   "pr_opened_and_stopped")
         /\ TrueOf(p, Combined(Returns("failed", "aborted", p)), TRUE, "aborted")
         /\ \A state \in Terminal \ {"aborted"} :
              TrueOf(p, Combined(Returns(state, "stopped", p)), TRUE, state)
         /\ \A state :
              TrueOf(p, Combined(Returns("failed", "lifecycle_storage_uncertain", p)),
                     TRUE, state)
         /\ \A state :
              TrueOf(p, Combined(Returns("failed", "runner_internal_failure", None)),
                     TRUE, state)
<1> USE NamesAssumption DEF Combined, Returns, Report, Durable, TrueOf, Terminal
<1>1. TrueOf(p, Combined(Returns("success", "pr_opened_and_stopped", p)), TRUE,
             "pr_opened_and_stopped")
  BY DEF Verified
<1>2. TrueOf(p, Combined(Returns("failed", "aborted", p)), TRUE, "aborted")
  BY DEF Verified
<1>3. ASSUME NEW state \in Terminal \ {"aborted"}
      PROVE  TrueOf(p, Combined(Returns(state, "stopped", p)), TRUE, state)
  OBVIOUS
<1>4. \A state :
        TrueOf(p, Combined(Returns("failed", "lifecycle_storage_uncertain", p)),
               TRUE, state)
  OBVIOUS
<1>5. \A state :
        TrueOf(p, Combined(Returns("failed", "runner_internal_failure", None)),
               TRUE, state)
  OBVIOUS
<1> QED
  BY <1>1, <1>2, <1>3, <1>4, <1>5

LEMMA GatesKeepRInv ==
  ASSUME RInv, NEW p \in Procs, Gates(p)
  PROVE  RInv'
<1>1. /\ pc[p] = "gates" /\ p \notin initial[store[p]] /\ opening[p] = "idle"
      /\ store[p] \in Stores /\ ~ I!InTransaction(p)
  BY DEF Gates, RInv, ClaimsMatchPlaces, ClaimersHaveOpened, Early, Typed,
         I!InTransaction
<1>2. CASE I!OpenStore(p, store[p]) /\ Goes(p, "open")
  <2>1. /\ pc' = [pc EXCEPT ![p] = "open"]
        /\ path' = [path EXCEPT ![p] = store[p]]
        /\ opening' = [opening EXCEPT ![p] = "stat"]
        /\ UNCHANGED <<file, lock, hot, initial, current, store, life, result>>
    BY <1>2 DEF Goes, GoesTo, I!OpenStore, I!GoesTo, I!files
  <2> USE DEF RInv, Typed
  <2>2. Typed'
    BY <1>1, <2>1 DEF IsOver, Places, Stages
  <2>3. StoreInv'
    BY <1>1, <2>1 DEF StoreInv, LocksAreHeld, FilesMatchOpeners, TablesMatchFiles,
                      I!InTransaction
  <2>4. ClaimersHaveOpened' /\ ClaimsMatchPlaces'
    BY <1>1, <2>1 DEF ClaimersHaveOpened, ClaimsMatchPlaces, Early, I!InTransaction
  <2>5. ReportsMatchTheStore'
    BY <2>1 DEF ReportsMatchTheStore
  <2> QED
    BY <2>2, <2>3, <2>4, <2>5
<1>3. CASE /\ Return(p, Returns("blocked", "unclaimed", None))
           /\ UNCHANGED <<life, storeVars>>
  BY <1>1, <1>3, UnclaimedKeepsRInv DEF RInv, Typed, storeVars
<1> QED
  BY <1>2, <1>3 DEF Gates

LEMMA OpenedKeepsRInv ==
  ASSUME RInv, NEW p \in Procs, Opened(p)
  PROVE  RInv'
<1>1. /\ pc[p] = "open" /\ p \notin initial[store[p]] /\ path[p] = store[p]
      /\ UNCHANGED storeVars
  BY DEF Opened, RInv, ClaimsMatchPlaces, ClaimersHaveOpened
<1>2. CASE opening[p] = "open" /\ Goes(p, "claim")
  BY <1>1, <1>2, MoveKeepsRInv
     DEF Goes, GoesTo, storeVars, Early, Places, I!InTransaction
<1>3. CASE /\ opening[p] = "failed"
           /\ Return(p, Returns("blocked", "unclaimed", None))
           /\ UNCHANGED life
  BY <1>1, <1>3, UnclaimedKeepsRInv DEF RInv, Typed, storeVars, I!InTransaction
<1> QED
  BY <1>2, <1>3 DEF Opened

LEMMA ClaimKeepsRInv ==
  ASSUME RInv, NEW p \in Procs, Claim(p) \/ ClaimFails(p) \/ ClaimUncertain(p)
  PROVE  RInv'
<1>1. /\ pc[p] = "claim" /\ p \notin initial[store[p]]
      /\ UNCHANGED <<file, lock, path, opening, store>> /\ hot' \in SUBSET Stores
      /\ ~ I!InTransaction(p)
  BY DEF Claim, ClaimFails, ClaimUncertain, RInv, ClaimsMatchPlaces,
         ClaimersHaveOpened, Typed, storeVars, Return
<1>2. CASE /\ Return(p, Returns("blocked", "unclaimed", None))
           /\ UNCHANGED <<initial, current, life>>
  BY <1>1, <1>2, UnclaimedKeepsRInv
<1>3. ASSUME ClaimApplies(p)
      PROVE  /\ StoreInv' /\ p \in initial'[store[p]]
             /\ initial' \in [Stores -> SUBSET (Procs \cup Old)]
             /\ current' \in [Stores -> SUBSET (Procs \cup Old)]
             /\ \A q \in Procs \ {p}, s \in Stores :
                  q \in initial'[s] <=> q \in initial[s]
             /\ life' = [life EXCEPT ![p] = "claim_created"]
  BY <1>1, <1>3, ClaimKeepsStores DEF ClaimApplies
<1> USE DEF RInv, Typed
<1>4. CASE /\ ClaimApplies(p) /\ UNCHANGED result
           /\ pc' = [pc EXCEPT ![p] = "working"]
  <2>1. Typed'
    BY <1>1, <1>3, <1>4 DEF IsOver, Places
  <2>2. ClaimersHaveOpened'
    BY <1>1, <1>4 DEF ClaimersHaveOpened, Early, I!InTransaction
  <2>3. ClaimsMatchPlaces'
    BY <1>1, <1>3, <1>4 DEF ClaimsMatchPlaces, Early
  <2>4. ReportsMatchTheStore'
    <3>1. result[p] = None
      BY <1>1 DEF ClaimsMatchPlaces
    <3> QED
      BY <1>1, <1>3, <1>4, <3>1 DEF ReportsMatchTheStore, IsOver
  <2> QED
    BY <1>3, <1>4, <2>1, <2>2, <2>3, <2>4
<1>5. CASE /\ ClaimApplies(p)
           /\ Return(p, Returns("blocked", "claim_durability_uncertain", None))
  <2> DEFINE r == Combined(Returns("blocked", "claim_durability_uncertain", None))
  <2>1. /\ pc' = [pc EXCEPT ![p] = "done"]
        /\ result' = [result EXCEPT ![p] = r]
    BY <1>5 DEF Return, Answers, GoesTo
  <2>2. ~r.consumed /\ r.lifecycle = None /\ r.category = "claim_durability_uncertain"
    BY UnclaimedIsTrue
  <2> HIDE DEF r
  <2>3. Typed'
    BY <1>1, <1>3, <1>5, <2>1 DEF IsOver, Places
  <2>4. ClaimersHaveOpened'
    BY <1>1, <2>1 DEF ClaimersHaveOpened, Early, I!InTransaction
  <2>5. ClaimsMatchPlaces'
    BY <1>1, <1>3, <1>5, <2>1 DEF ClaimsMatchPlaces, IsOver, Early
  <2>6. ReportsMatchTheStore'
    BY <1>1, <1>3, <1>5, <2>1, <2>2 DEF ReportsMatchTheStore, IsOver
  <2> QED
    BY <1>3, <1>5, <2>3, <2>4, <2>5, <2>6
<1> QED
  BY <1>2, <1>4, <1>5 DEF Claim, ClaimFails, ClaimUncertain, GoesTo, storeVars

LEMMA EndsKeepRInv ==
  ASSUME RInv, NEW p \in Procs, Ends(p) \/ EndsUncertain(p) \/ RunnerRaises(p)
  PROVE  RInv'
<1>1. /\ pc[p] = "working" /\ p \in initial[store[p]]
      /\ UNCHANGED <<file, lock, initial, current, path, opening, store>>
      /\ hot' \in SUBSET Stores /\ ~ I!InTransaction(p)
  BY DEF Ends, EndsUncertain, RunnerRaises, RInv, ClaimsMatchPlaces,
         ClaimersHaveOpened, Typed, storeVars, Return
<1>2. ASSUME NEW state, life' = [life EXCEPT ![p] = state],
             NEW r, Answers(p, Combined(r)), TrueOf(p, Combined(r), TRUE, state)
      PROVE  RInv'
  <2> DEFINE report == Combined(r)
  <2>1. Answers(p, report) /\ TrueOf(p, report, p \in initial[store[p]], state)
    BY <1>1, <1>2 DEF TrueOf
  <2> HIDE DEF report
  <2> QED
    BY <1>1, <1>2, <2>1, AnswerKeepsRInv
<1>3. CASE Ends(p)
  <2> PICK state \in Terminal \cup {"pr_opened_and_stopped"} :
        /\ life' = [life EXCEPT ![p] = state]
        /\ Return(p, CASE state = "pr_opened_and_stopped" ->
                            Returns("success", state, p)
                       [] state = "aborted" -> Returns("failed", state, p)
                       [] OTHER -> Returns(state, "stopped", p))
    BY <1>3 DEF Ends
  <2>1. CASE state = "pr_opened_and_stopped"
    <3>1. Return(p, Returns("success", "pr_opened_and_stopped", p))
      BY <2>1
    <3> QED
      BY <1>2, <2>1, <3>1, ClaimedIsTrue DEF Return
  <2>2. CASE state = "aborted"
    <3>1. Return(p, Returns("failed", "aborted", p))
      BY <2>2
    <3> QED
      BY <1>2, <2>2, <3>1, ClaimedIsTrue DEF Return
  <2>3. CASE state \in Terminal \ {"aborted"}
    <3>1. Return(p, Returns(state, "stopped", p))
      BY <2>3 DEF Terminal
    <3> QED
      BY <1>2, <2>3, <3>1, ClaimedIsTrue DEF Return
  <2> QED
    BY <2>1, <2>2, <2>3
<1>4. CASE EndsUncertain(p)
  BY <1>2, <1>4, ClaimedIsTrue DEF EndsUncertain, Return
<1>5. CASE RunnerRaises(p)
  BY <1>2, <1>5, ClaimedIsTrue DEF RunnerRaises, Return
<1> QED
  BY <1>3, <1>4, <1>5

(* Only a process in the transaction that opens its store dies here.       *)
LEMMA DiesKeepsRInv ==
  ASSUME RInv, NEW p \in Procs, Dies(p)
  PROVE  RInv'
<1>1. /\ I!InTransaction(p) /\ pc' = [pc EXCEPT ![p] = "dead"]
      /\ I!GoesTo(p, "dead") /\ lock' = I!Released(p)
      /\ UNCHANGED <<file, initial, current, path, store, life, result>>
      /\ hot' \in SUBSET Stores
  BY DEF Dies, GoesTo, I!OpenerDies, I!CommitOpeningCutShort, RInv, Typed, StoreInv,
         LocksAreHeld, I!InTransaction
<1>2. opening[p] # "idle" /\ opening[p] # "open"
  BY <1>1 DEF I!InTransaction
<1>3. StoreInv' /\ lock' \in [Stores -> Procs \cup {None}]
  BY <1>1, <1>2, AskingKeepsStores DEF RInv, Idle, Stages
<1>4. /\ opening' \in [Procs -> Stages]
      /\ \A q \in Procs \ {p} : opening'[q] = opening[q]
  BY <1>1, OpenerMoves DEF RInv, Stages
<1> USE DEF RInv, Typed
<1>5. Typed'
  BY <1>1, <1>3, <1>4 DEF IsOver, Places
<1>6. pc[p] = "open" /\ result[p] = None /\ opening'[p] = "dead"
  BY <1>1, OpenerMoves DEF ClaimsMatchPlaces, ClaimersHaveOpened, Stages
<1>7. ClaimersHaveOpened'
  BY <1>1, <1>4, <1>6 DEF ClaimersHaveOpened, Early, I!InTransaction
<1>8. ClaimsMatchPlaces' /\ ReportsMatchTheStore'
  BY <1>1, <1>4, <1>6 DEF ClaimsMatchPlaces, ReportsMatchTheStore, Early
<1> QED
  BY <1>3, <1>5, <1>7, <1>8

-----------------------------------------------------------------------------
(* The theorems.                                                           *)

LEMMA NextRInv == RInv /\ [Next]_vars => RInv'
<1> SUFFICES ASSUME RInv, [Next]_vars PROVE RInv'
  OBVIOUS
<1>1. ASSUME NEW p \in Procs, Step(p) PROVE RInv'
  <2>1. CASE EarlyStep(p)
    BY <2>1, EarlyKeepsRInv
  <2>2. CASE CompileStep(p) \/ BuildStep(p)
    BY <2>2, QuietKeepsRInv DEF CompileStep, BuildStep, control
  <2>3. CASE Gates(p) \/ OpenStep(p) \/ Opened(p)
    BY <2>3, GatesKeepRInv, OpenStepKeepsRInv, OpenedKeepsRInv
  <2>4. CASE Claim(p) \/ ClaimFails(p) \/ ClaimUncertain(p)
    BY <2>4, ClaimKeepsRInv
  <2>5. CASE Ends(p) \/ EndsUncertain(p) \/ RunnerRaises(p)
    BY <2>5, EndsKeepRInv
  <2> QED
    BY <1>1, <2>1, <2>2, <2>3, <2>4, <2>5 DEF Step, EarlyStep
<1>2. ASSUME NEW p \in Procs, Dies(p) PROVE RInv'
  BY <1>2, DiesKeepsRInv
<1>3. CASE Others \/ WorldChanges
  BY <1>3, QuietKeepsRInv DEF Others, WorldChanges, control
<1>4. CASE UNCHANGED vars
  BY <1>4, QuietKeepsRInv DEF vars, control
<1> QED
  BY <1>1, <1>2, <1>3, <1>4 DEF Next

(* A store that a process has opened has every table of this version, and  *)
(* a current snapshot for each claim, whoever else creates or migrates the *)
(* same file at the same time, dies doing so, or is told that its COMMIT   *)
(* failed (_initialize_database, _migrate_v1_database).                    *)
THEOREM OpenedStoresAreWhole == Spec => []OpenStoresAreWhole
<1>1. RInv => OpenStoresAreWhole
  <2> SUFFICES ASSUME RInv PROVE OpenStoresAreWhole
    OBVIOUS
  <2>1. \A p \in Procs : I!At(p, "open") => file[path[p]] = "v2"
    BY DEF RInv, StoreInv, FilesMatchOpeners, I!At
  <2> QED
    BY <2>1 DEF RInv, StoreInv, TablesMatchFiles, OpenStoresAreWhole,
                I!OpenStoresAreWhole
<1> QED
  BY <1>1, InitRInv, NextRInv, PTL DEF Spec

(* What a command reports of its attempt is in its store, for every way a  *)
(* run can end (_combined_result).                                         *)
THEOREM ReportsAreTrue == Spec => []ReportsMatchTheStore
BY InitRInv, NextRInv, PTL DEF Spec, RInv

-----------------------------------------------------------------------------
(***************************************************************************)
(* The files of the control roots: task specs and packages.  The second    *)
(* invariant says what a compiler knows once it has compared the           *)
(* fingerprint, what its spec is from then on, what a builder's package is *)
(* made of, and that a command goes on only with what it has made.         *)
(***************************************************************************)

FilesTyped ==
  /\ head \in Bases
  /\ issue \in [Issues -> Candidates]
  /\ fact \in [Deps -> S!Facts]
  /\ listed \in [base : Bases, issue : [Issues -> Candidates]] \cup {None}
  /\ proposals \in SUBSET Digests
  /\ approvals \in SUBSET proposals
  /\ spec \in [Roots -> Specs \cup {None}]
  /\ package \in [Roots -> Packages \cup {None}]
  /\ stage \in [Procs -> {"none", "empty", "whole", "inspected"}]
  /\ IsOver(building, Procs)
  /\ IsOver(compiling, Procs) /\ IsOver(given, Procs) /\ IsOver(read, Procs)
  /\ IsOver(pc, Procs) /\ IsOver(kind, Procs) /\ IsOver(runs, Procs)
  /\ root \in [Procs -> Roots]

\* A spec that was compiled was proposed and approved as it was read.
SpecOK(r) ==
  spec[r] # None /\ spec[r].digest # None =>
    /\ spec[r].digest \in approvals
    /\ S!Completed(spec[r].digest.facts)
    /\ spec[r].base = spec[r].digest.base

\* A package is inspected, and made of a spec that is whole and still there.
PackageOK(r) ==
  package[r] # None =>
    /\ package[r].stage = "inspected"
    /\ spec[r] \in Specs /\ spec[r].whole
    /\ package[r].spec = spec[r]

\* What was read if it is what a proposal says.
SeenAs(f) == [candidate |-> f.candidate, facts |-> f.facts]

\* A compiler knows from the comparison on that its proposal is approved, of
\* what it has read, and complete; and what it writes is of that.
CompilerOK(p) ==
  /\ compiling[p] # "idle" =>
       given[p].proposal \in proposals /\ given[p].approval \in approvals
  /\ compiling[p] \in {"output", "write", "written", "compiled"} =>
       /\ given[p].approval = given[p].proposal
       /\ read[p] = SeenAs(given[p].proposal)
       /\ S!Completed(given[p].proposal.facts)
  /\ compiling[p] \in {"written", "compiled"} =>
       /\ spec[root[p]] \in Specs
       /\ spec[root[p]].by = p
       /\ spec[root[p]].digest = given[p].proposal
       /\ spec[root[p]].whole <=> compiling[p] = "compiled"

BuilderOK(p) ==
  /\ building[p] \in {"base", "compose", "stage", "files", "inspect", "publish"} =>
       spec[root[p]] \in Specs /\ spec[root[p]].whole
  /\ building[p] = "publish" => stage[p] = "inspected"
  /\ building[p] = "published" => package[root[p]] \in Packages /\ package[root[p]].by = p

\* A command goes on only with what it has compiled and built, and so does its run.
CommandOK(p) ==
  /\ kind[p] = "successor" /\ pc[p] \in {"spec", "store", "build", "artifacts"} =>
       compiling[p] = "compiled"
  /\ kind[p] # "run" /\ pc[p] = "artifacts" => building[p] = "published"
  /\ runs[p] # None =>
       /\ runs[p].stage = "inspected"
       /\ kind[p] # "run" => runs[p].by = p
       /\ kind[p] = "successor" => runs[p].spec.by = p /\ runs[p].spec.digest \in approvals

FInv ==
  /\ FilesTyped
  /\ \A r \in Roots : SpecOK(r) /\ PackageOK(r)
  /\ \A p \in Procs : CompilerOK(p) /\ BuilderOK(p) /\ CommandOK(p)

LEMMA InitFInv == Init => FInv
<1> SUFFICES ASSUME Init PROVE FInv
  OBVIOUS
<1> USE DEF Init, S!SuccessorInit, B!PackageInit
<1>1. OperatorSpecs \subseteq Specs
  BY DEF OperatorSpecs, Specs
<1>2. EarlierPackages \subseteq Packages
  BY <1>1 DEF EarlierPackages, Packages
<1>3. fact \in [Deps -> S!Facts]
  BY DEF S!Facts
<1>4. FilesTyped
  BY <1>1, <1>2, <1>3 DEF FilesTyped, IsOver
<1>5. ASSUME NEW r \in Roots PROVE SpecOK(r) /\ PackageOK(r)
  <2>1. spec[r] \in {None} \cup OperatorSpecs
    BY <1>5
  <2>2. SpecOK(r)
    BY <2>1 DEF SpecOK, OperatorSpecs
  <2>3. ASSUME package[r] # None PROVE PackageOK(r)
    <3>1. package[r] \in EarlierPackages /\ spec[r] = package[r].spec
      BY <1>5, <2>3 DEF RootsAreInOrder
    <3>2. package[r].stage = "inspected" /\ package[r].spec \in OperatorSpecs
      BY <3>1 DEF EarlierPackages
    <3>3. package[r].spec.whole
      BY <3>2 DEF OperatorSpecs
    <3> QED
      BY <1>1, <3>1, <3>2, <3>3 DEF PackageOK
  <2> QED
    BY <2>2, <2>3 DEF PackageOK
<1>6. ASSUME NEW p \in Procs PROVE CompilerOK(p) /\ BuilderOK(p) /\ CommandOK(p)
  BY DEF CompilerOK, BuilderOK, CommandOK
<1> QED
  BY <1>4, <1>5, <1>6 DEF FInv

-----------------------------------------------------------------------------
(* What the step of one process does to the files and to the others.       *)

KeptOf(q) ==
  UNCHANGED <<compiling[q], given[q], read[q], building[q], stage[q], pc[q], runs[q]>>

\* A spec that is there changes only if it is not complete, and by its maker;
\* a package that is there does not change.
FilesKept(p) ==
  \A r \in Roots :
    /\ \/ spec'[r] = spec[r]
       \/ spec[r] = None
       \/ /\ spec[r] \in Specs /\ ~spec[r].whole /\ spec[r].by = p
          /\ compiling'[p] # compiling[p]
    /\ package'[r] = package[r] \/ package[r] = None

StepOK(p) ==
  /\ FilesTyped'
  /\ UNCHANGED <<kind, root>>
  /\ proposals \subseteq proposals' /\ approvals \subseteq approvals'
  /\ \A q \in Procs \ {p} : KeptOf(q)
  /\ FilesKept(p)
  /\ CompilerOK(p)' /\ BuilderOK(p)' /\ CommandOK(p)'
  /\ \A r \in Roots : SpecOK(r)' /\ PackageOK(r)'

LEMMA StepKeepsFInv ==
  ASSUME FInv, NEW p \in Procs, StepOK(p)
  PROVE  FInv'
<1>1. ASSUME NEW q \in Procs \ {p}
      PROVE  CompilerOK(q)' /\ BuilderOK(q)' /\ CommandOK(q)'
  <2> DEFINE r == root[q]
  <2>1. /\ CompilerOK(q) /\ BuilderOK(q) /\ CommandOK(q) /\ KeptOf(q) /\ r \in Roots
        /\ root' = root /\ kind' = kind /\ q # p
        /\ proposals \subseteq proposals' /\ approvals \subseteq approvals'
    BY <1>1 DEF FInv, FilesTyped, StepOK
  <2>2. \/ spec'[r] = spec[r]
        \/ spec[r] = None
        \/ spec[r] \in Specs /\ ~spec[r].whole /\ spec[r].by = p
    BY <2>1 DEF StepOK, FilesKept
  <2>3. spec[r] = None => spec[r] \notin Specs
    BY FilesAssumption
  <2>4. package'[r] = package[r] \/ package[r] \notin Packages
    BY <2>1, FilesAssumption DEF StepOK, FilesKept
  <2>5. CompilerOK(q)'
    BY <2>1, <2>2, <2>3 DEF CompilerOK, KeptOf
  <2>6. BuilderOK(q)'
    BY <2>1, <2>2, <2>3, <2>4 DEF BuilderOK, KeptOf
  <2>7. CommandOK(q)'
    BY <2>1 DEF CommandOK, KeptOf
  <2> QED
    BY <2>5, <2>6, <2>7
<1> QED
  BY <1>1 DEF FInv, StepOK

\* A step that leaves the files alone.
LEMMA QuietFiles ==
  ASSUME FInv, UNCHANGED <<spec, package>>, approvals \subseteq approvals'
  PROVE  /\ \A p : FilesKept(p)
         /\ \A r \in Roots : SpecOK(r)' /\ PackageOK(r)'
<1>1. \A p : FilesKept(p)
  BY DEF FilesKept
<1>2. ASSUME NEW r \in Roots PROVE SpecOK(r)' /\ PackageOK(r)'
  BY <1>2 DEF FInv, SpecOK, PackageOK
<1> QED
  BY <1>1, <1>2

-----------------------------------------------------------------------------
(* Proposing, approving, and the world.                                    *)

LEMMA FactsAreTyped ==
  ASSUME FilesTyped, NEW c \in Candidates
  PROVE  S!Depends(c) \in UNION {[D -> {"open", "completed", "not_planned"}] : D \in SUBSET Deps}
<1>1. c.depends \in SUBSET Deps
  BY CandidatesAssumption
<1>2. S!Depends(c) \in [c.depends -> {"open", "completed", "not_planned"}]
  BY <1>1 DEF S!Depends, FilesTyped, S!Facts
<1> QED
  BY <1>1, <1>2

LEMMA OthersKeepFInv ==
  ASSUME FInv, Others \/ WorldChanges
  PROVE  FInv'
<1>1. UNCHANGED <<spec, package, stage, building, compiling, given, read, pc, kind, root, runs>>
  BY DEF Others, WorldChanges, S!ListIssues, S!Propose, S!ProposeFails, S!Approve, S!World,
     S!compilerVars, packageVars, control
<1>2. FilesTyped' /\ proposals \subseteq proposals' /\ approvals \subseteq approvals'
  <2>1. FilesTyped
    BY DEF FInv
  <2>2. CASE WorldChanges
    <3>1. UNCHANGED <<listed, proposals, approvals>>
      BY <2>2 DEF WorldChanges, S!World, S!proposing
    <3>2. /\ head' \in Bases /\ issue' \in [Issues -> Candidates]
          /\ fact' \in [Deps -> S!Facts]
      BY <2>1, <2>2 DEF WorldChanges, S!World, S!EditIssue, S!ChangeDependency, S!MoveHead,
         S!Edit, S!Verify, FilesTyped
    <3> QED
      BY <1>1, <2>1, <3>1, <3>2 DEF FilesTyped, IsOver
  <2>3. CASE Others
    <3>1. CASE S!ListIssues \/ S!ProposeFails
      BY <1>1, <2>1, <3>1 DEF S!ListIssues, S!ProposeFails, S!world, FilesTyped, IsOver
    <3>2. CASE S!Approve
      BY <1>1, <2>1, <3>2 DEF S!Approve, S!world, FilesTyped, IsOver
    <3>3. CASE S!Propose
      <4>1. listed \in [base : Bases, issue : [Issues -> Candidates]] /\ listed' = None
        BY <2>1, <3>3 DEF S!Propose, FilesTyped
      <4>2. ASSUME NEW i \in S!Eligible(listed.issue)
            PROVE  LET c == listed.issue[i] IN
                   [base |-> listed.base, issue |-> i, candidate |-> c,
                    facts |-> S!Depends(c)] \in Digests
        <5>1. i \in Issues /\ listed.issue[i] \in Candidates
          BY <4>1, <4>2 DEF S!Eligible, S!Ready
        <5>2. S!Depends(listed.issue[i]) \in
                UNION {[D -> {"open", "completed", "not_planned"}] : D \in SUBSET Deps}
          BY <2>1, <5>1, FactsAreTyped
        <5> QED
          BY <4>1, <5>1, <5>2 DEF Digests
      <4>3. proposals' \in SUBSET Digests /\ proposals \subseteq proposals'
        BY <2>1, <3>3, <4>2 DEF S!Propose, FilesTyped
      <4> QED
        BY <1>1, <2>1, <3>3, <4>1, <4>3 DEF S!Propose, S!world, FilesTyped, IsOver
    <3> QED
      BY <2>3, <3>1, <3>2, <3>3 DEF Others
  <2> QED
    BY <2>2, <2>3
<1>3. ASSUME NEW p \in Procs PROVE CompilerOK(p)' /\ BuilderOK(p)' /\ CommandOK(p)'
  <2>1. CompilerOK(p) /\ BuilderOK(p) /\ CommandOK(p)
    BY DEF FInv
  <2>2. CompilerOK(p)'
    BY <1>1, <1>2, <2>1 DEF CompilerOK
  <2>3. BuilderOK(p)' /\ CommandOK(p)'
    BY <1>1, <1>2, <2>1 DEF BuilderOK, CommandOK
  <2> QED
    BY <2>2, <2>3
<1> QED
  BY <1>1, <1>2, <1>3, QuietFiles DEF FInv

-----------------------------------------------------------------------------
(* Compiling.                                                              *)

\* The step of a compiler that leaves the files alone.
LEMMA QuietCompilerKeeps ==
  ASSUME FInv, NEW p \in Procs, NEW to, compiling' = [compiling EXCEPT ![p] = to],
         to \notin {"written", "compiled"},
         UNCHANGED <<S!world, S!proposing, spec, packageVars, kind, root, runs>>,
         (pc' = pc /\ pc[p] = "compile") \/ pc' = [pc EXCEPT ![p] = "compile"],
         IsOver(given, Procs)', IsOver(read, Procs)',
         \A q \in Procs \ {p} : given'[q] = given[q] /\ read'[q] = read[q],
         given'[p].proposal \in proposals, given'[p].approval \in approvals,
         to \in {"output", "write"} =>
           /\ given'[p].approval = given'[p].proposal
           /\ read'[p] = SeenAs(given'[p].proposal)
           /\ S!Completed(given'[p].proposal.facts)
  PROVE  StepOK(p)
<1> USE DEF packageVars, S!world, S!proposing
<1>1. FilesTyped /\ compiling'[p] = to /\ pc'[p] = "compile"
  BY DEF FInv, FilesTyped, IsOver
<1>2. FilesTyped'
  BY <1>1 DEF FilesTyped, IsOver
<1>3. \A q \in Procs \ {p} : KeptOf(q)
  BY <1>1 DEF FilesTyped, IsOver, KeptOf
<1>4. CompilerOK(p)'
  BY <1>1 DEF CompilerOK
<1>5. BuilderOK(p)'
  BY DEF FInv, BuilderOK
<1>6. CommandOK(p)'
  BY <1>1 DEF FInv, CommandOK
<1> QED
  BY <1>2, <1>3, <1>4, <1>5, <1>6, QuietFiles DEF StepOK

LEMMA StartSuccessorIsOK ==
  ASSUME FInv, NEW p \in Procs, StartSuccessor(p)
  PROVE  StepOK(p)
<1>1. PICK f \in proposals, a \in approvals :
        given' = [given EXCEPT ![p] = [proposal |-> f, approval |-> a]]
  BY DEF StartSuccessor, S!Compile
<1>2. PICK to \in {"state"} :
      /\ compiling' = [compiling EXCEPT ![p] = to]
      /\ UNCHANGED <<S!world, S!proposing, spec, packageVars, kind, root, runs, read>>
      /\ pc' = [pc EXCEPT ![p] = "compile"]
  BY DEF StartSuccessor, S!Compile, S!CompilerGoesTo, Goes, GoesTo
<1>3. IsOver(given, Procs)' /\ IsOver(read, Procs)'
  BY <1>1, <1>2 DEF FInv, FilesTyped, IsOver
<1>4. /\ given'[p] = [proposal |-> f, approval |-> a]
      /\ \A q \in Procs \ {p} : given'[q] = given[q] /\ read'[q] = read[q]
  BY <1>1, <1>2 DEF FInv, FilesTyped, IsOver
<1>5. given'[p].proposal \in proposals /\ given'[p].approval \in approvals
  BY <1>4
<1>6. to \notin {"written", "compiled"} /\ to \notin {"output", "write"}
  BY <1>2
<1> QED
  BY <1>2, <1>3, <1>4, <1>5, <1>6, QuietCompilerKeeps

\* The fingerprint that was compared is of what was read.
LEMMA ComparedIsRead ==
  ASSUME NEW p \in Procs, S!Completed(S!Depends(read[p])), S!Recomputed(p) = S!Proposal(p)
  PROVE  /\ [candidate |-> read[p], facts |-> S!Depends(read[p])] = SeenAs(given[p].proposal)
         /\ S!Completed(given[p].proposal.facts)
<1>1. /\ S!Recomputed(p).candidate = read[p]
      /\ S!Recomputed(p).facts = S!Depends(read[p])
  BY DEF S!Recomputed
<1> QED
  BY <1>1 DEF S!Proposal, SeenAs

LEMMA CompilerReadsOK ==
  ASSUME FInv, NEW p \in Procs, CompileStep(p),
         S!LoadProposal(p) \/ S!ReadIssue(p) \/ S!ReadDependencies(p) \/ S!QualifyOutput(p, root[p])
  PROVE  StepOK(p)
<1>1. /\ UNCHANGED <<S!world, S!proposing, spec, packageVars, kind, root, runs, given>>
      /\ pc' = pc /\ pc[p] = "compile"
  BY DEF CompileStep, control, S!LoadProposal, S!ReadIssue, S!ReadDependencies, S!QualifyOutput
<1>2. IsOver(given, Procs)' /\ IsOver(read, Procs)' /\ FilesTyped
  BY <1>1 DEF FInv, FilesTyped, IsOver, S!LoadProposal, S!ReadIssue, S!ReadDependencies,
     S!QualifyOutput
<1>3. /\ compiling[p] # "idle"
      /\ \A q \in Procs \ {p} : given'[q] = given[q] /\ read'[q] = read[q]
  BY <1>1, <1>2 DEF S!LoadProposal, S!ReadIssue, S!ReadDependencies, S!QualifyOutput,
     S!Compiling, FilesTyped, IsOver
<1>4. given'[p].proposal \in proposals /\ given'[p].approval \in approvals
  BY <1>1, <1>3 DEF FInv, CompilerOK
<1>5. CASE S!LoadProposal(p) \/ S!ReadIssue(p)
  <2>1. PICK to \in {"issue", "dependencies", "blocked"} :
          compiling' = [compiling EXCEPT ![p] = to]
    BY <1>5 DEF S!LoadProposal, S!ReadIssue, S!CompilerGoesTo
  <2> QED
    BY <1>1, <1>2, <1>3, <1>4, <2>1, QuietCompilerKeeps
<1>6. CASE S!ReadDependencies(p)
  <2>1. CASE /\ S!Completed(S!Depends(read[p])) /\ S!Recomputed(p) = S!Proposal(p)
             /\ S!Bound(p)
    <3>1. PICK to \in {"output"} : compiling' = [compiling EXCEPT ![p] = to]
      BY <1>6, <2>1 DEF S!ReadDependencies, S!CompilerGoesTo
    <3>2. /\ read'[p] = SeenAs(given[p].proposal)
          /\ S!Completed(given[p].proposal.facts)
      BY <1>6, <2>1, ComparedIsRead DEF S!ReadDependencies, FInv, FilesTyped, IsOver
    <3>3. given[p].approval = given[p].proposal
      BY <2>1 DEF S!Bound, S!Proposal
    <3>4. given' = given
      BY <1>1
    <3> QED
      BY <1>1, <1>2, <1>3, <1>4, <3>1, <3>2, <3>3, <3>4, QuietCompilerKeeps
  <2>2. CASE ~ (/\ S!Completed(S!Depends(read[p])) /\ S!Recomputed(p) = S!Proposal(p)
                /\ S!Bound(p))
    <3>1. PICK to \in {"blocked"} : compiling' = [compiling EXCEPT ![p] = to]
      BY <1>6, <2>2 DEF S!ReadDependencies, S!CompilerGoesTo
    <3> QED
      BY <1>1, <1>2, <1>3, <1>4, <3>1, QuietCompilerKeeps
  <2> QED
    BY <2>1, <2>2
<1>7. CASE S!QualifyOutput(p, root[p])
  <2>1. PICK to \in {"write", "blocked"} : compiling' = [compiling EXCEPT ![p] = to]
    BY <1>7 DEF S!QualifyOutput, S!CompilerGoesTo
  <2>2. /\ given[p].approval = given[p].proposal
        /\ read[p] = SeenAs(given[p].proposal)
        /\ S!Completed(given[p].proposal.facts)
        /\ given' = given /\ read' = read
    BY <1>1, <1>7 DEF S!QualifyOutput, S!Compiling, FInv, CompilerOK
  <2> QED
    BY <1>1, <1>2, <1>3, <1>4, <2>1, <2>2, QuietCompilerKeeps
<1> QED
  BY <1>5, <1>6, <1>7

\* The step of a compiler at its spec: it is created where there is none, and
\* changed or removed only where it is this compiler's own and not complete.
LEMMA SpecStepKeeps ==
  ASSUME FInv, NEW p \in Procs, NEW to, compiling' = [compiling EXCEPT ![p] = to],
         to # "idle", compiling[p] \in {"write", "written"}, to # compiling[p],
         UNCHANGED <<S!world, S!proposing, packageVars, control, given, read>>,
         pc[p] = "compile",
         NEW s \in Specs \cup {None}, spec' = [spec EXCEPT ![root[p]] = s],
         compiling[p] = "write" => spec[root[p]] = None \/ s = spec[root[p]],
         s # spec[root[p]] /\ s # None /\ s.digest # None =>
           s.digest = given[p].proposal /\ s.base = given[p].proposal.base,
         to \in {"output", "write", "written", "compiled"} =>
           /\ s \in Specs /\ s.by = p /\ s.digest = given[p].proposal
           /\ s.whole <=> to = "compiled"
  PROVE  StepOK(p)
<1> DEFINE r == root[p]
<1> USE DEF packageVars, S!world, S!proposing, control
<1>1. /\ FilesTyped /\ compiling'[p] = to /\ r \in Roots /\ spec'[r] = s
      /\ CompilerOK(p) /\ BuilderOK(p) /\ CommandOK(p)
      /\ \A t \in Roots \ {r} : spec'[t] = spec[t]
  BY DEF FInv, FilesTyped, IsOver
<1>2. FilesTyped'
  BY <1>1 DEF FilesTyped, IsOver
<1>3. \A q \in Procs \ {p} : KeptOf(q)
  BY <1>1 DEF FilesTyped, IsOver, KeptOf
<1>4. /\ given[p].proposal \in approvals
      /\ read[p] = SeenAs(given[p].proposal) /\ given[p].approval = given[p].proposal
      /\ S!Completed(given[p].proposal.facts)
      /\ given[p].proposal \in proposals
  BY <1>1 DEF CompilerOK
<1>5. CompilerOK(p)'
  BY <1>1, <1>4 DEF CompilerOK
<1>6. \/ s = spec[r] \/ spec[r] = None
      \/ spec[r] \in Specs /\ ~spec[r].whole /\ spec[r].by = p
  BY <1>1 DEF CompilerOK
<1>7. FilesKept(p)
  BY <1>1, <1>6 DEF FilesKept
<1>8. spec[r] \in Specs /\ spec[r].whole => s = spec[r]
  BY <1>6, FilesAssumption
<1>9. BuilderOK(p)' /\ CommandOK(p)'
  BY <1>1, <1>8 DEF BuilderOK, CommandOK
<1>10. ASSUME NEW t \in Roots PROVE SpecOK(t)' /\ PackageOK(t)'
  <2>1. SpecOK(t) /\ PackageOK(t)
    BY DEF FInv
  <2>2. PackageOK(t)'
    BY <1>1, <1>8, <2>1 DEF PackageOK
  <2>3. CASE t = r /\ s # spec[r]
    BY <1>1, <1>4, <2>1, <2>2, <2>3 DEF SpecOK
  <2> QED
    BY <1>1, <2>1, <2>2, <2>3 DEF SpecOK
<1> QED
  BY <1>2, <1>3, <1>5, <1>7, <1>9, <1>10 DEF StepOK

LEMMA CompilerWritesOK ==
  ASSUME FInv, NEW p \in Procs, CompileStep(p),
         \/ S!CreateSpec(p, root[p]) \/ S!FinishSpec(p, root[p])
         \/ S!CompileFails(p, root[p])
  PROVE  StepOK(p)
<1> DEFINE r == root[p]
<1>1. /\ UNCHANGED <<S!world, S!proposing, packageVars, control, given>> /\ pc[p] = "compile"
      /\ read' = read /\ r \in Roots /\ FilesTyped
      /\ CompilerOK(p) /\ SpecOK(r)
  BY DEF CompileStep, S!CreateSpec, S!FinishSpec, S!CompileFails, FInv, FilesTyped
<1>2. spec = [spec EXCEPT ![r] = spec[r]] /\ spec[r] \in Specs \cup {None}
  BY <1>1 DEF FilesTyped
<1>3. CASE S!CreateSpec(p, r)
  <2>1. /\ compiling[p] = "write" /\ given[p].approval = given[p].proposal
        /\ read[p] = SeenAs(given[p].proposal)
        /\ given[p].proposal \in Digests
    BY <1>1, <1>3 DEF S!CreateSpec, S!Compiling, CompilerOK, FilesTyped
  <2>2. CASE spec[r] = None
    <3> DEFINE f == given[p].proposal
               s == S!CompiledSpec(p)
    <3>1. PICK to \in {"written"} : compiling' = [compiling EXCEPT ![p] = to]
      BY <1>3, <2>2 DEF S!CreateSpec, S!CompilerGoesTo
    <3>2. /\ read[p].candidate = f.candidate /\ read[p].facts = f.facts
          /\ f = [base |-> f.base, issue |-> f.issue, candidate |-> f.candidate,
                  facts |-> f.facts]
      BY <2>1 DEF Digests, SeenAs
    <3>3. s = [by |-> p, whole |-> FALSE, base |-> f.base, digest |-> f]
      BY <3>2 DEF S!CompiledSpec, S!Proposal
    <3>4. f.base \in Bases
      BY <2>1 DEF Digests
    <3> HIDE DEF f
    <3>5. s \in Specs /\ s.by = p /\ ~s.whole /\ s.digest = f /\ s.base = f.base
      BY <2>1, <3>3, <3>4 DEF Specs, f
    <3>6. spec' = [spec EXCEPT ![r] = s]
      BY <1>3, <2>2 DEF S!CreateSpec
    <3> HIDE DEF s
    <3> QED
      BY <1>1, <2>1, <2>2, <3>1, <3>5, <3>6, SpecStepKeeps DEF f
  <2>3. CASE spec[r] # None
    <3>1. PICK to \in {"blocked"} : compiling' = [compiling EXCEPT ![p] = to]
      BY <1>3, <2>3 DEF S!CreateSpec, S!CompilerGoesTo
    <3>2. spec' = [spec EXCEPT ![r] = spec[r]]
      BY <1>2, <1>3, <2>3 DEF S!CreateSpec
    <3> QED
      BY <1>1, <1>2, <2>1, <3>1, <3>2, SpecStepKeeps
  <2> QED
    BY <2>2, <2>3
<1>4. ASSUME compiling[p] = "written"
      PROVE  /\ spec[r] \in Specs /\ spec[r].by = p /\ spec[r].digest = given[p].proposal
             /\ spec[r].digest # None => spec[r].base = given[p].proposal.base
  <2>1. /\ spec[r] \in Specs /\ spec[r].by = p /\ spec[r].digest = given[p].proposal
    BY <1>1, <1>4 DEF CompilerOK
  <2>2. spec[r] # None
    BY <2>1, FilesAssumption
  <2> QED
    BY <1>1, <2>1, <2>2 DEF SpecOK
<1>5. CASE S!FinishSpec(p, r)
  <2> DEFINE s == [spec[r] EXCEPT !.whole = TRUE]
  <2>1. compiling[p] = "written"
    BY <1>5 DEF S!FinishSpec, S!Compiling
  <2>2. PICK to \in {"compiled"} : compiling' = [compiling EXCEPT ![p] = to]
    BY <1>5 DEF S!FinishSpec, S!CompilerGoesTo
  <2>3. spec' = [spec EXCEPT ![r] = s]
    BY <1>5 DEF S!FinishSpec
  <2>4. /\ s \in Specs /\ s.by = p /\ s.whole = TRUE /\ s.digest = given[p].proposal
        /\ s.digest # None => s.base = given[p].proposal.base
    BY <1>4, <2>1 DEF Specs
  <2> HIDE DEF s
  <2> QED
    BY <1>1, <2>1, <2>2, <2>3, <2>4, SpecStepKeeps
<1>6. CASE S!CompileFails(p, r)
  <2>1. PICK to \in {"blocked"} : compiling' = [compiling EXCEPT ![p] = to]
    BY <1>6 DEF S!CompileFails, S!CompilerGoesTo
  <2>2. CASE compiling[p] = "written" /\ spec' = [spec EXCEPT ![r] = None]
    BY <1>1, <2>1, <2>2, SpecStepKeeps
  <2>3. CASE UNCHANGED spec /\ compiling[p] \in {"write", "written"}
    <3>1. spec' = [spec EXCEPT ![r] = spec[r]]
      BY <1>2, <2>3
    <3> QED
      BY <1>1, <1>2, <2>1, <2>3, <3>1, SpecStepKeeps
  <2>4. CASE UNCHANGED spec /\ compiling[p] \in {"state", "issue", "dependencies", "output"}
    <3>1. /\ IsOver(given, Procs)' /\ IsOver(read, Procs)'
          /\ \A q \in Procs \ {p} : given'[q] = given[q] /\ read'[q] = read[q]
      BY <1>1 DEF FilesTyped, IsOver
    <3>2. given'[p].proposal \in proposals /\ given'[p].approval \in approvals
      BY <1>1, <2>4 DEF CompilerOK
    <3> QED
      BY <1>1, <2>1, <2>4, <3>1, <3>2, QuietCompilerKeeps DEF control
  <2> QED
    BY <1>6, <2>2, <2>3, <2>4 DEF S!CompileFails, S!RemoveSpec, S!Compiling
<1> QED
  BY <1>3, <1>5, <1>6

LEMMA CompileStepIsOK ==
  ASSUME FInv, NEW p \in Procs, CompileStep(p)
  PROVE  StepOK(p)
BY CompilerReadsOK, CompilerWritesOK DEF CompileStep, S!CompilerStep

-----------------------------------------------------------------------------
(* Building.                                                               *)

\* The step of a builder that publishes nothing.
LEMMA QuietBuilderKeeps ==
  ASSUME FInv, NEW p \in Procs, NEW to, building' = [building EXCEPT ![p] = to],
         NEW s \in {"none", "empty", "whole", "inspected"}, stage' = [stage EXCEPT ![p] = s],
         UNCHANGED <<successorVars, package, kind, root, runs>>,
         pc' = [pc EXCEPT ![p] = "build"], pc[p] \in {"idle", "store", "build"},
         pc[p] = "idle" => kind[p] # "successor",
         to # "blocked" => spec[root[p]] \in Specs /\ spec[root[p]].whole,
         to = "publish" => s = "inspected", to # "published"
  PROVE  StepOK(p)
<1> USE DEF successorVars
<1>1. /\ FilesTyped /\ building'[p] = to /\ stage'[p] = s /\ pc'[p] = "build"
      /\ CompilerOK(p) /\ BuilderOK(p) /\ CommandOK(p)
      /\ UNCHANGED <<head, issue, fact, listed, proposals, approvals, spec, compiling, given, read>>
  BY DEF FInv, FilesTyped, IsOver, world
<1>2. FilesTyped'
  BY <1>1 DEF FilesTyped, IsOver
<1>3. \A q \in Procs \ {p} : KeptOf(q)
  BY <1>1 DEF FilesTyped, IsOver, KeptOf
<1>4. CompilerOK(p)'
  BY <1>1 DEF CompilerOK
<1>5. BuilderOK(p)' /\ CommandOK(p)'
  BY <1>1 DEF BuilderOK, CommandOK
<1> QED
  BY <1>1, <1>2, <1>3, <1>4, <1>5, QuietFiles DEF StepOK

LEMMA BuildBeginsOK ==
  ASSUME FInv, NEW p \in Procs, B!Build(p, SpecIsWhole(p)), Goes(p, "build"),
         UNCHANGED successorVars, pc[p] \in {"idle", "store"},
         pc[p] = "idle" => kind[p] # "successor"
  PROVE  StepOK(p)
<1>1. FilesTyped
  BY DEF FInv
<1>2. SpecIsWhole(p) => spec[root[p]] \in Specs /\ spec[root[p]].whole
  BY <1>1 DEF SpecIsWhole, FilesTyped
<1>3. PICK to \in {"base", "blocked"} :
        /\ building' = [building EXCEPT ![p] = to]
        /\ to # "blocked" => SpecIsWhole(p)
  BY DEF B!Build, B!BuilderGoesTo
<1>4. stage' = [stage EXCEPT ![p] = stage[p]] /\ package' = package
      /\ stage[p] \in {"none", "empty", "whole", "inspected"}
  BY <1>1 DEF B!Build, FilesTyped
<1>5. pc' = [pc EXCEPT ![p] = "build"] /\ UNCHANGED <<kind, root, runs>>
  BY DEF Goes, GoesTo
<1> QED
  BY <1>2, <1>3, <1>4, <1>5, QuietBuilderKeeps

LEMMA BuildGoesOnOK ==
  ASSUME FInv, NEW p \in Procs, BuildStep(p),
         B!RequireBase(p, AtBase(p)) \/ B!BuildStep(p, root[p])
  PROVE  StepOK(p)
<1>1. /\ FilesTyped /\ BuilderOK(p) /\ pc[p] = "build" /\ package' = package
      /\ UNCHANGED <<successorVars, kind, root, runs>> /\ pc' = pc
  BY DEF FInv, BuildStep, control, B!RequireBase, B!BuildStep, B!Compose, B!CreateStage,
     B!WriteFiles, B!Inspect, B!BuildFails
<1>2. pc' = [pc EXCEPT ![p] = "build"]
  BY <1>1 DEF FilesTyped, IsOver
<1>3. spec[root[p]] \in Specs /\ spec[root[p]].whole
  BY <1>1 DEF BuilderOK, B!RequireBase, B!BuildStep, B!Compose, B!CreateStage, B!WriteFiles,
     B!Inspect, B!BuildFails, B!Building, B!Unpublished
<1>4. PICK to \in {"compose", "stage", "files", "inspect", "publish", "blocked"},
           s \in {"none", "empty", "whole", "inspected"} :
        /\ building' = [building EXCEPT ![p] = to]
        /\ stage' = [stage EXCEPT ![p] = s]
        /\ to = "publish" => s = "inspected"
  <2>1. stage = [stage EXCEPT ![p] = stage[p]] /\ stage[p] \in {"none", "empty", "whole", "inspected"}
    BY <1>1 DEF FilesTyped
  <2>2. CASE B!RequireBase(p, AtBase(p)) \/ B!Compose(p, root[p])
    BY <2>1, <2>2 DEF B!RequireBase, B!Compose, B!BuilderGoesTo
  <2>3. CASE B!CreateStage(p) \/ B!WriteFiles(p) \/ B!Inspect(p)
    BY <2>3 DEF B!CreateStage, B!WriteFiles, B!Inspect, B!BuilderGoesTo, B!StageBecomes
  <2>4. CASE B!BuildFails(p)
    BY <2>1, <2>4 DEF B!BuildFails, B!BuilderGoesTo, B!StageBecomes
  <2> QED
    BY <2>2, <2>3, <2>4 DEF B!BuildStep
<1> QED
  BY <1>1, <1>2, <1>3, <1>4, QuietBuilderKeeps

\* The package is inspected, of the spec that is there, and published where
\* there is none.
LEMMA PublishIsOK ==
  ASSUME FInv, NEW p \in Procs, BuildStep(p), B!Publish(p, root[p], spec[root[p]])
  PROVE  StepOK(p)
<1> DEFINE r == root[p]
           content == [by |-> p, stage |-> stage[p], spec |-> spec[r]]
<1>1. /\ FilesTyped /\ CompilerOK(p) /\ BuilderOK(p) /\ CommandOK(p) /\ pc[p] = "build"
      /\ UNCHANGED <<head, issue, fact, listed, proposals, approvals, spec, compiling, given, read>>
      /\ UNCHANGED <<kind, root, runs, pc>> /\ r \in Roots
  BY DEF FInv, BuildStep, control, successorVars, world, FilesTyped
<1>2. /\ spec[r] \in Specs /\ spec[r].whole /\ stage[p] = "inspected" /\ package[r] = None
      /\ package' = [package EXCEPT ![r] = content]
      /\ stage' = [stage EXCEPT ![p] = "none"]
      /\ building' = [building EXCEPT ![p] = "published"]
  BY <1>1 DEF B!Publish, B!Building, B!NothingThere, B!StageBecomes, B!BuilderGoesTo, BuilderOK
<1>3. /\ content \in Packages /\ content.by = p /\ content.stage = "inspected"
      /\ content.spec = spec[r]
  BY <1>2 DEF Packages
<1> HIDE DEF content
<1>4. /\ package'[r] = content /\ \A t \in Roots \ {r} : package'[t] = package[t]
      /\ building'[p] = "published"
  BY <1>1, <1>2 DEF FilesTyped, IsOver
<1>5. FilesTyped'
  BY <1>1, <1>2, <1>3 DEF FilesTyped, IsOver
<1>6. \A q \in Procs \ {p} : KeptOf(q)
  BY <1>1, <1>2 DEF FilesTyped, IsOver, KeptOf
<1>7. CompilerOK(p)' /\ CommandOK(p)'
  BY <1>1 DEF CompilerOK, CommandOK
<1>8. BuilderOK(p)'
  BY <1>1, <1>3, <1>4 DEF BuilderOK
<1>9. FilesKept(p)
  BY <1>1, <1>2, <1>4 DEF FilesKept
<1>10. ASSUME NEW t \in Roots PROVE SpecOK(t)' /\ PackageOK(t)'
  <2>1. SpecOK(t) /\ PackageOK(t)
    BY DEF FInv
  <2> QED
    BY <1>1, <1>2, <1>3, <1>4, <2>1 DEF SpecOK, PackageOK
<1> QED
  BY <1>1, <1>5, <1>6, <1>7, <1>8, <1>9, <1>10 DEF StepOK

-----------------------------------------------------------------------------
(* Going on with what was made.                                            *)

LEMMA PlaceIsOK ==
  ASSUME FInv, NEW p \in Procs, UNCHANGED <<successorVars, packageVars, kind, root, runs>>,
         NEW to, pc' = [pc EXCEPT ![p] = to],
         kind[p] = "successor" /\ to \in {"spec", "store", "build", "artifacts"} =>
           compiling[p] = "compiled",
         kind[p] # "run" /\ to = "artifacts" => building[p] = "published"
  PROVE  StepOK(p)
<1>1. /\ FilesTyped /\ CompilerOK(p) /\ BuilderOK(p) /\ CommandOK(p) /\ pc'[p] = to
      /\ UNCHANGED <<head, issue, fact, listed, proposals, approvals, spec, compiling, given, read>>
      /\ UNCHANGED <<package, stage, building>>
  BY DEF FInv, successorVars, packageVars, world, FilesTyped, IsOver
<1>2. FilesTyped' /\ \A q \in Procs \ {p} : KeptOf(q)
  BY <1>1 DEF FilesTyped, IsOver, KeptOf
<1>3. CompilerOK(p)' /\ BuilderOK(p)'
  BY <1>1 DEF CompilerOK, BuilderOK
<1>4. CommandOK(p)'
  BY <1>1 DEF CommandOK
<1> QED
  BY <1>1, <1>2, <1>3, <1>4, QuietFiles DEF StepOK

LEMMA InvokeIsOK ==
  ASSUME FInv, NEW p \in Procs, UNCHANGED <<successorVars, packageVars, kind, root>>,
         pc[p] = "artifacts", package[root[p]] # None,
         runs' = [runs EXCEPT ![p] = package[root[p]]], pc' = [pc EXCEPT ![p] = "gates"]
  PROVE  StepOK(p)
<1> DEFINE r == root[p]
<1>1. /\ FilesTyped /\ CompilerOK(p) /\ BuilderOK(p) /\ CommandOK(p)
      /\ UNCHANGED <<head, issue, fact, listed, proposals, approvals, spec, compiling, given, read>>
      /\ UNCHANGED <<package, stage, building>> /\ r \in Roots
  BY DEF FInv, successorVars, packageVars, world, FilesTyped
<1>2. /\ PackageOK(r) /\ SpecOK(r) /\ runs'[p] = package[r] /\ pc'[p] = "gates"
  BY <1>1 DEF FInv, FilesTyped, IsOver
<1>3. FilesTyped' /\ \A q \in Procs \ {p} : KeptOf(q)
  BY <1>1 DEF FilesTyped, IsOver, KeptOf
<1>4. CompilerOK(p)' /\ BuilderOK(p)'
  BY <1>1 DEF CompilerOK, BuilderOK
<1>5. CommandOK(p)'
  <2>1. package[r].stage = "inspected" /\ package[r].spec = spec[r]
    BY <1>2 DEF PackageOK
  <2>2. kind[p] # "run" => package[r].by = p
    BY <1>1 DEF CommandOK, BuilderOK
  <2>3. kind[p] = "successor" => spec[r].by = p /\ spec[r].digest \in approvals
    BY <1>1 DEF CommandOK, CompilerOK
  <2> QED
    BY <1>1, <1>2, <2>1, <2>2, <2>3 DEF CommandOK
<1> QED
  BY <1>1, <1>3, <1>4, <1>5, QuietFiles DEF StepOK

LEMMA StopsIsOK ==
  ASSUME FInv, NEW p \in Procs, UNCHANGED <<successorVars, packageVars, kind, root, runs>>,
         NEW r, Answers(p, r)
  PROVE  StepOK(p)
<1>1. PICK to \in {"done"} : pc' = [pc EXCEPT ![p] = to]
  BY DEF Answers, GoesTo
<1> QED
  BY <1>1, PlaceIsOK

LEMMA CommandStepIsOK ==
  ASSUME FInv, NEW p \in Procs,
         \/ Compiled(p) \/ StartReviewed(p) \/ LoadSpec(p) \/ QualifyStore(p)
         \/ StartPackage(p) \/ Built(p) \/ StartRun(p) \/ InvokeRunner(p)
  PROVE  StepOK(p)
<1>1. CommandOK(p) /\ CompilerOK(p) /\ BuilderOK(p)
  BY DEF FInv
<1>2. ASSUME Stops(p), UNCHANGED <<successorVars, packageVars>> PROVE StepOK(p)
  BY <1>2, StopsIsOK DEF Stops
<1>3. CASE Compiled(p)
  <2>1. CASE compiling[p] = "compiled" /\ Goes(p, "spec")
    <3>1. PICK to \in {"spec"} : pc' = [pc EXCEPT ![p] = to]
      BY <2>1 DEF Goes, GoesTo
    <3> QED
      BY <1>3, <2>1, <3>1, PlaceIsOK DEF Compiled, Goes
  <2> QED
    BY <1>2, <1>3, <2>1 DEF Compiled
<1>4. CASE StartReviewed(p)
  <2>1. PICK to \in {"spec"} : pc' = [pc EXCEPT ![p] = to]
    BY <1>4 DEF StartReviewed, Goes, GoesTo
  <2> QED
    BY <1>4, <2>1, PlaceIsOK DEF StartReviewed, Goes
<1>5. CASE LoadSpec(p)
  <2>1. CASE Goes(p, "store")
    <3>1. PICK to \in {"store"} : pc' = [pc EXCEPT ![p] = to]
      BY <2>1 DEF Goes, GoesTo
    <3>2. kind[p] = "successor" => compiling[p] = "compiled"
      BY <1>1, <1>5 DEF LoadSpec, CommandOK
    <3> QED
      BY <1>5, <2>1, <3>1, <3>2, PlaceIsOK DEF LoadSpec, Goes
  <2> QED
    BY <1>2, <1>5, <2>1 DEF LoadSpec
<1>6. CASE QualifyStore(p)
  BY <1>2, <1>6, BuildBeginsOK DEF QualifyStore
<1>7. CASE StartPackage(p)
  BY <1>7, BuildBeginsOK DEF StartPackage
<1>8. CASE Built(p)
  <2>1. CASE building[p] = "published" /\ Goes(p, "artifacts")
    <3>1. PICK to \in {"artifacts"} : pc' = [pc EXCEPT ![p] = to]
      BY <2>1 DEF Goes, GoesTo
    <3>2. kind[p] = "successor" => compiling[p] = "compiled"
      BY <1>1, <1>8 DEF Built, CommandOK
    <3> QED
      BY <1>8, <2>1, <3>1, <3>2, PlaceIsOK DEF Built, Goes
  <2>2. CASE \E r : Answers(p, r) /\ UNCHANGED <<kind, root, runs>>
    BY <1>8, <2>2, StopsIsOK DEF Built
  <2> QED
    BY <1>2, <1>8, <2>1, <2>2 DEF Built
<1>9. CASE StartRun(p)
  <2>1. PICK to \in {"artifacts"} : pc' = [pc EXCEPT ![p] = to]
    BY <1>9 DEF StartRun, Goes, GoesTo
  <2> QED
    BY <1>9, <2>1, PlaceIsOK DEF StartRun, Goes
<1>10. CASE InvokeRunner(p)
  <2>1. CASE /\ package[root[p]] # None
             /\ runs' = [runs EXCEPT ![p] = package[root[p]]]
             /\ GoesTo(p, "gates") /\ UNCHANGED <<kind, root>>
    BY <1>10, <2>1, InvokeIsOK DEF InvokeRunner, GoesTo
  <2> QED
    BY <1>2, <1>10, <2>1 DEF InvokeRunner
<1> QED
  BY <1>3, <1>4, <1>5, <1>6, <1>7, <1>8, <1>9, <1>10

\* From the gates on a run changes neither files nor packages.
LEMMA RunStepIsOK ==
  ASSUME FInv, NEW p \in Procs,
         \/ Gates(p) \/ OpenStep(p) \/ Opened(p) \/ Claim(p) \/ ClaimFails(p)
         \/ ClaimUncertain(p) \/ Ends(p) \/ EndsUncertain(p) \/ RunnerRaises(p) \/ Dies(p)
  PROVE  StepOK(p)
<1>1. UNCHANGED <<successorVars, packageVars, kind, root, runs>>
  BY DEF Gates, OpenStep, Opened, Claim, ClaimFails, ClaimUncertain, Ends, EndsUncertain,
     RunnerRaises, Dies, Goes, Return, control
<1>2. PICK to : /\ to \in {"open", "claim", "working", "done", "dead"}
                /\ pc' = [pc EXCEPT ![p] = to]
  <2>1. CASE OpenStep(p)
    <3>1. pc' = [pc EXCEPT ![p] = "open"]
      BY <2>1 DEF OpenStep, control, FInv, FilesTyped, IsOver
    <3> QED
      BY <3>1
  <2>2. CASE Gates(p) \/ Opened(p) \/ Dies(p)
    BY <2>2 DEF Gates, Opened, Dies, Goes, GoesTo, Return, Answers
  <2>3. CASE \/ Claim(p) \/ ClaimFails(p) \/ ClaimUncertain(p) \/ Ends(p)
             \/ EndsUncertain(p) \/ RunnerRaises(p)
    BY <2>3 DEF Claim, ClaimFails, ClaimUncertain, Ends, EndsUncertain, RunnerRaises,
       GoesTo, Return, Answers
  <2> QED
    BY <2>1, <2>2, <2>3
<1> QED
  BY <1>1, <1>2, PlaceIsOK

LEMMA AnyStepIsOK ==
  ASSUME FInv, NEW p \in Procs, Step(p) \/ Dies(p)
  PROVE  StepOK(p)
<1>1. CASE BuildStep(p)
  BY <1>1, BuildGoesOnOK, PublishIsOK DEF BuildStep
<1> QED
  BY <1>1, StartSuccessorIsOK, CompileStepIsOK, CommandStepIsOK, RunStepIsOK DEF Step

LEMMA NextFInv == FInv /\ [Next]_vars => FInv'
<1> SUFFICES ASSUME FInv, [Next]_vars PROVE FInv'
  OBVIOUS
<1>1. CASE UNCHANGED vars
  <2>1. /\ UNCHANGED <<head, issue, fact, listed, proposals, approvals, spec, compiling, given, read>>
        /\ UNCHANGED <<package, stage, building, pc, kind, root, runs>>
    BY <1>1 DEF vars, successorVars, packageVars, control, world
  <2>2. FilesTyped'
    BY <2>1 DEF FInv, FilesTyped, IsOver
  <2>3. \A r \in Roots : SpecOK(r)' /\ PackageOK(r)'
    BY <2>1 DEF FInv, SpecOK, PackageOK
  <2>4. ASSUME NEW p \in Procs PROVE CompilerOK(p)' /\ BuilderOK(p)' /\ CommandOK(p)'
    <3>1. CompilerOK(p)'
      BY <2>1 DEF FInv, CompilerOK
    <3>2. BuilderOK(p)' /\ CommandOK(p)'
      BY <2>1 DEF FInv, BuilderOK, CommandOK
    <3> QED
      BY <3>1, <3>2
  <2> QED
    BY <2>2, <2>3, <2>4 DEF FInv
<1>2. ASSUME NEW p \in Procs, Step(p) \/ Dies(p) PROVE FInv'
  BY <1>2, AnyStepIsOK, StepKeepsFInv
<1> QED
  BY <1>1, <1>2, OthersKeepFInv DEF Next

LEMMA FInvHolds == Spec => []FInv
BY InitFInv, NextFInv, PTL DEF Spec

(* Whatever runs for a successor was compiled by its own process, of a     *)
(* proposal that was approved as the compiler read it                      *)
(* (execute_approved_codex_successor).                                     *)
THEOREM RunsAreApproved == Spec => []OnlyApprovedWorkRuns
<1>1. FInv => OnlyApprovedWorkRuns
  BY DEF FInv, SpecOK, CommandOK, OnlyApprovedWorkRuns, S!CompiledIsApproved
<1> QED
  BY <1>1, FInvHolds, PTL

(* What runs was inspected, and but for the command that runs a package it *)
(* finds it is the one that its own process built                          *)
(* (execute_reviewed_codex_task, build_codex_pilot_package).               *)
THEOREM RunsUseTheirPackage == Spec => []ReviewedRunsOwnPackage
<1>1. FInv => ReviewedRunsOwnPackage
  BY DEF FInv, CommandOK, ReviewedRunsOwnPackage
<1> QED
  BY <1>1, FInvHolds, PTL

(* A complete spec and a published package stay as they are, and what is   *)
(* not complete is only touched by its maker                               *)
(* (_write_and_round_trip_task_spec, build_codex_pilot_package).           *)
THEOREM FilesOfOthersStay == Spec => OthersFilesAreKept
<1>1. ASSUME FInv, [Next]_vars, NEW r \in Roots
      PROVE  /\ spec[r] # None /\ spec[r].whole => spec'[r] = spec[r]
             /\ spec[r] # None /\ spec'[r] # spec[r] =>
                  compiling[spec[r].by] # compiling'[spec[r].by]
             /\ package[r] # None => package'[r] = package[r]
  <2>1. CASE spec' = spec /\ package' = package
    BY <2>1
  <2>2. ASSUME NEW p \in Procs, Step(p) \/ Dies(p)
        PROVE  FilesKept(p)
    BY <1>1, <2>2, AnyStepIsOK DEF StepOK
  <2>3. CASE Others \/ WorldChanges
    BY <2>1, <2>3 DEF Others, WorldChanges, S!ListIssues, S!Propose, S!ProposeFails,
       S!Approve, S!World, packageVars
  <2>4. CASE UNCHANGED vars
    BY <2>1, <2>4 DEF vars, successorVars, packageVars
  <2> QED
    BY <1>1, <2>2, <2>3, <2>4 DEF Next, FilesKept
<1>2. FInv /\ [Next]_vars => \A r \in Roots :
        /\ spec[r] # None /\ spec[r].whole => spec'[r] = spec[r]
        /\ spec[r] # None /\ spec'[r] # spec[r] =>
             compiling[spec[r].by] # compiling'[spec[r].by]
        /\ package[r] # None => package'[r] = package[r]
  BY <1>1
<1> QED
  BY <1>2, FInvHolds, PTL DEF OthersFilesAreKept, Spec
===============================================================================
